---------------------------- MODULE Spec2Model ----------------------------
(***************************************************************************)
(* AssetVerse server (src/index.js): the request-approval and asset-       *)
(* assignment workflow with inventory accounting.                          *)
(*                                                                         *)
(* The document store is modelled collection by collection.  Every HTTP   *)
(* handler is a call that occupies a slot of `calls`; a handler that       *)
(* awaits several storage operations is split at each await, so that other *)
(* calls interleave exactly where the event loop lets them.  A handler     *)
(* made of one storage operation is one action.                            *)
(***************************************************************************)
EXTENDS Integers, Sequences, FiniteSets, TLC

\* ---------------------------------------------------------------- bounds
MaxAssets == 1
MaxRequests == 2
MaxQty == 1
MaxCalls == 2
MaxFaults == 1
MaxRemovals == 2
MaxTime == 1
MaxSessions == 2
MaxPayments == 2

\* ------------------------------------------------------------- identities
HRs == {"h1", "h2"}
Employees == {"e1", "e2"}
Emails == HRs \cup Employees
Types == {"Returnable", "Non-returnable"}
Quantities == (0 - 1) .. MaxQty
Slots == 1 .. MaxCalls

\* users collection: the stored role of a verified identity
Role(email) == IF email \in HRs THEN "hr" ELSE "employee"

\* (mutant) the role test left out of the middleware
verifyHRAnyRole(email) == email \in Emails

\* verifyHR middleware: passes exactly for a stored role "hr"
verifyHR(email) == Role(email) = "hr"

\* packages collection: no handler writes it.  Basic is the free package a
\* company registers with, Standard is paid; the employee limits are data of
\* the collection, here of the size of the two employees modelled.
Packages == {"Basic", "Standard"}
price(name) == IF name = "Basic" THEN 0 ELSE 1
employeeLimit(name) == IF name = "Basic" THEN 1 ELSE 2

VARIABLES
    users,                 \* users collection: HR email -> [currentEmployees,
                           \* subscription, packageLimit]
    assets,                \* assets collection, _id = index
    requests,              \* requests collection, _id = index
    assignedAssets,        \* assignedAssets collection, _id = index
    employeeAffiliations,  \* employeeAffiliations collection, _id = index
    payments,              \* payments collection, in insertion order
    sessions,              \* the payment processor's checkout sessions, id = index
    calls,                 \* handler invocations in flight: slot -> position and locals
    last,                  \* the response sent by the latest step, if it sent one
    now,                   \* the clock read by new Date()
    nFaults,               \* storage operations that have thrown so far
    nRemovals,             \* DELETE /employee-affiliations calls started so far
    snap,                  \* history: the collections as they were when the call
                           \* started (recorded by the sequential specification)
    log                    \* history: the responses sent so far (recorded by the
                           \* specification of the approval race)

DB == <<users, assets, requests, assignedAssets, employeeAffiliations, payments>>
vars == <<users, assets, requests, assignedAssets, employeeAffiliations,
          payments, sessions, calls, last, now, nFaults, nRemovals, snap, log>>
billing == <<payments, sessions>>
hist == <<snap, log>>

\* ----------------------------------------------------------------- calls
IdleCall ==
    [op |-> "none", pc |-> "idle", caller |-> "none", id |-> 0, target |-> "none",
     found |-> FALSE, queue |-> <<>>]

NoResponse == [op |-> "none", caller |-> "none", id |-> 0, target |-> "none", result |-> 0]

Free(c) == calls[c].pc = "idle"
InFlight(c) == ~Free(c)
AllIdle == \A c \in Slots : Free(c)
\* slots are interchangeable: a new call takes the lowest free one
FirstFree(c) == Free(c) /\ \A d \in Slots : d < c => ~Free(d)

\* the middleware passed and the handler awaits its first storage operation
Begin(c, op, caller, id, target, pc) ==
    /\ calls' = [calls EXCEPT ![c] =
          [IdleCall EXCEPT !.op = op, !.pc = pc, !.caller = caller,
                           !.id = id, !.target = target]]
    /\ last' = NoResponse

\* a handler that responds: res.status(code).send(...)
Respond(op, caller, id, target, code) ==
    last' = [op |-> op, caller |-> caller, id |-> id, target |-> target, result |-> code]

Finish(c, code) ==
    /\ calls' = [calls EXCEPT ![c] = IdleCall]
    /\ Respond(calls[c].op, calls[c].caller, calls[c].id, calls[c].target, code)

Goto(c, pc) ==
    /\ calls' = [calls EXCEPT ![c].pc = pc]
    /\ last' = NoResponse

UNCH_counters == UNCHANGED <<now, nFaults, nRemovals>>

\* ------------------------------------------------------------ collections
AssetIds == 1 .. MaxAssets
RequestIds == 1 .. MaxRequests
AssignedIds == 1 .. MaxRequests

\* (mutant) a deleted document still found
AssetExistsDeleted(id) == id \in 1 .. Len(assets)

\* findOne({_id}) on assets: a deleted document is not found
AssetExists(id) == id \in 1 .. Len(assets) /\ ~assets[id].deleted
RequestExists(id) == id \in 1 .. Len(requests)
AssignedExists(id) == id \in 1 .. Len(assignedAssets)

\* the users document of a company as it registers: the Basic package
NewHR ==
    [currentEmployees |-> 0, subscription |-> "Basic",
     packageLimit |-> employeeLimit("Basic")]

Init ==
    /\ users = [h \in HRs |-> NewHR]
    /\ payments = <<>>
    /\ sessions = <<>>
    /\ assets = <<>>
    /\ requests = <<>>
    /\ assignedAssets = <<>>
    /\ employeeAffiliations = <<>>
    /\ calls = [c \in Slots |-> IdleCall]
    /\ last = NoResponse
    /\ now = 0
    /\ nFaults = 0
    /\ nRemovals = 0
    /\ snap = <<>>
    /\ log = <<>>

\* ------------------------------------------------------------ POST /assets
\* productName, productImage and productType are stored and never read by a
\* handler of the workflow: the type that governs a return is the request's.
createAsset(caller, qty) ==
    /\ Len(assets) < MaxAssets
    /\ IF verifyHR(caller)
       THEN /\ assets' = Append(assets,
                   [hrEmail |-> caller,
                    productQuantity |-> qty, availableQuantity |-> qty,
                    deleted |-> FALSE])
            /\ Respond("createAsset", caller, Len(assets) + 1, "none", 200)
       ELSE /\ UNCHANGED assets
            /\ Respond("createAsset", caller, 0, "none", 403)
    /\ UNCHANGED <<users, requests, assignedAssets, employeeAffiliations>>
    /\ UNCHANGED calls
    /\ UNCH_counters
    /\ UNCHANGED billing

\* --------------------------------------------------------- PUT /assets/:id
\* (mutant) the $set without availableQuantity
editAssetKeepAvailable(caller, id, qty) ==
    /\ IF ~verifyHR(caller)
       THEN /\ UNCHANGED assets
            /\ Respond("editAsset", caller, id, "none", 403)
       ELSE IF AssetExists(id) /\ assets[id].hrEmail = caller
       THEN /\ assets' = [assets EXCEPT ![id].productQuantity = qty]
            /\ Respond("editAsset", caller, id, "none", 200)
       ELSE /\ UNCHANGED assets
            /\ Respond("editAsset", caller, id, "none", 404)
    /\ UNCHANGED <<users, requests, assignedAssets, employeeAffiliations>>
    /\ UNCHANGED calls
    /\ UNCH_counters
    /\ UNCHANGED billing

editAsset(caller, id, qty) ==
    /\ IF ~verifyHR(caller)
       THEN /\ UNCHANGED assets
            /\ Respond("editAsset", caller, id, "none", 403)
       ELSE IF AssetExists(id) /\ assets[id].hrEmail = caller
       THEN /\ assets' = [assets EXCEPT ![id].productQuantity = qty,
                                        ![id].availableQuantity = qty]
            /\ Respond("editAsset", caller, id, "none", 200)
       ELSE /\ UNCHANGED assets
            /\ Respond("editAsset", caller, id, "none", 404)
    /\ UNCHANGED <<users, requests, assignedAssets, employeeAffiliations>>
    /\ UNCHANGED calls
    /\ UNCH_counters
    /\ UNCHANGED billing

\* ------------------------------------------------------ DELETE /assets/:id
deleteAsset(caller, id) ==
    /\ IF ~verifyHR(caller)
       THEN /\ UNCHANGED assets
            /\ Respond("deleteAsset", caller, id, "none", 403)
       ELSE IF AssetExists(id) /\ assets[id].hrEmail = caller
       THEN /\ assets' = [assets EXCEPT ![id].deleted = TRUE]
            /\ Respond("deleteAsset", caller, id, "none", 200)
       ELSE /\ UNCHANGED assets
            /\ Respond("deleteAsset", caller, id, "none", 404)
    /\ UNCHANGED <<users, requests, assignedAssets, employeeAffiliations>>
    /\ UNCHANGED calls
    /\ UNCH_counters
    /\ UNCHANGED billing

\* ---------------------------------------------------------- POST /requests
\* The body is taken as sent: no field is checked against the collections.
\* decs counts the inventory decrements made on behalf of the request (history).
createRequest(caller, assetId, assetType, hrEmail) ==
    /\ Len(requests) < MaxRequests
    /\ requests' = Append(requests,
           [assetId |-> assetId, assetType |-> assetType, hrEmail |-> hrEmail,
            requesterEmail |-> caller, requestStatus |-> "pending", decs |-> 0])
    /\ Respond("createRequest", caller, Len(requests) + 1, "none", 201)
    /\ UNCHANGED <<users, assets, assignedAssets, employeeAffiliations>>
    /\ UNCHANGED calls
    /\ UNCH_counters
    /\ UNCHANGED billing


\* ----------------------------------------------- PATCH /requests/:id/approve
\* (mutant) the lookup without its requestStatus filter
PendingMatchAnyStatus(id, hrEmail) ==
    /\ RequestExists(id)
    /\ requests[id].hrEmail = hrEmail

\* findOne({_id, hrEmail, requestStatus: "pending"})
PendingMatch(id, hrEmail) ==
    /\ RequestExists(id)
    /\ requests[id].hrEmail = hrEmail
    /\ requests[id].requestStatus = "pending"

\* (mutant) the availability test off by one
UnavailableBelowZero(asset) == asset.availableQuantity < 0

\* if (asset.availableQuantity <= 0)
Unavailable(asset) == asset.availableQuantity <= 0

\* updateOne({_id}, {$inc: {availableQuantity: delta}}): no document, no change
IncAvailable(id, delta) ==
    IF AssetExists(id)
    THEN [assets EXCEPT ![id].availableQuantity = @ + delta]
    ELSE assets

\* (mutant) the lookup restricted to inactive affiliations
ExistingInactiveAff(employeeEmail, hrEmail) ==
    \E i \in 1 .. Len(employeeAffiliations) :
        /\ employeeAffiliations[i].employeeEmail = employeeEmail
        /\ employeeAffiliations[i].hrEmail = hrEmail
        /\ employeeAffiliations[i].status = "inactive"

\* (mutant) the lookup restricted to active affiliations
ExistingActiveAff(employeeEmail, hrEmail) ==
    \E i \in 1 .. Len(employeeAffiliations) :
        /\ employeeAffiliations[i].employeeEmail = employeeEmail
        /\ employeeAffiliations[i].hrEmail = hrEmail
        /\ employeeAffiliations[i].status = "active"

\* findOne({employeeEmail, hrEmail}) on employeeAffiliations: any status
ExistingAff(employeeEmail, hrEmail) ==
    \E i \in 1 .. Len(employeeAffiliations) :
        /\ employeeAffiliations[i].employeeEmail = employeeEmail
        /\ employeeAffiliations[i].hrEmail = hrEmail

\* the document inserted into assignedAssets; requestId, via, by and incs are
\* history: the request it came from, which handler and caller moved it to
\* returned, and how many times a return call incremented its asset for it
NewAssigned(rid, hrEmail) ==
    [assetId |-> requests[rid].assetId, assetType |-> requests[rid].assetType,
     employeeEmail |-> requests[rid].requesterEmail, hrEmail |-> hrEmail,
     status |-> "assigned", returnDate |-> 0 - 1, availableQuantity |-> 0,
     requestId |-> rid, via |-> "none", by |-> "none", incs |-> 0]

\* updateOne({_id}, {$set: {requestStatus: "approved"}})
SetApproved(id) ==
    IF RequestExists(id)
    THEN [requests EXCEPT ![id].requestStatus = "approved"]
    ELSE requests

approveStart(c, caller, id) ==
    /\ FirstFree(c)
    /\ IF verifyHR(caller)
       THEN Begin(c, "approve", caller, id, "none", "findRequest")
       ELSE Respond("approve", caller, id, "none", 403) /\ UNCHANGED calls
    /\ UNCHANGED DB
    /\ UNCH_counters
    /\ UNCHANGED billing

approveFindRequest(c) ==
    /\ calls[c].op = "approve" /\ calls[c].pc = "findRequest"
    /\ IF PendingMatch(calls[c].id, calls[c].caller)
       THEN Goto(c, "findAsset")
       ELSE Finish(c, 404)
    /\ UNCHANGED DB
    /\ UNCH_counters
    /\ UNCHANGED billing

\* a request whose asset is not found makes asset.availableQuantity throw: 500
approveFindAsset(c) ==
    /\ calls[c].op = "approve" /\ calls[c].pc = "findAsset"
    /\ LET aid == requests[calls[c].id].assetId IN
       IF ~AssetExists(aid) THEN Finish(c, 500)
       ELSE IF Unavailable(assets[aid]) THEN Finish(c, 400)
       ELSE Goto(c, "decAsset")
    /\ UNCHANGED DB
    /\ UNCH_counters
    /\ UNCHANGED billing

approveDecAsset(c) ==
    /\ calls[c].op = "approve" /\ calls[c].pc = "decAsset"
    /\ assets' = IncAvailable(requests[calls[c].id].assetId, 0 - 1)
    /\ requests' = [requests EXCEPT ![calls[c].id].decs =
                        IF AssetExists(requests[calls[c].id].assetId) THEN @ + 1 ELSE @]
    /\ Goto(c, "insertAssigned")
    /\ UNCHANGED <<users, assignedAssets, employeeAffiliations>>
    /\ UNCH_counters
    /\ UNCHANGED billing

approveInsertAssigned(c) ==
    /\ calls[c].op = "approve" /\ calls[c].pc = "insertAssigned"
    /\ assignedAssets' = Append(assignedAssets, NewAssigned(calls[c].id, calls[c].caller))
    /\ Goto(c, "findAff")
    /\ UNCHANGED <<users, assets, requests, employeeAffiliations>>
    /\ UNCH_counters
    /\ UNCHANGED billing

approveFindAff(c) ==
    /\ calls[c].op = "approve" /\ calls[c].pc = "findAff"
    /\ IF ExistingAff(requests[calls[c].id].requesterEmail, calls[c].caller)
       THEN Goto(c, "updateRequest")
       ELSE Goto(c, "insertAff")
    /\ UNCHANGED DB
    /\ UNCH_counters
    /\ UNCHANGED billing

approveInsertAff(c) ==
    /\ calls[c].op = "approve" /\ calls[c].pc = "insertAff"
    /\ employeeAffiliations' = Append(employeeAffiliations,
           [employeeEmail |-> requests[calls[c].id].requesterEmail,
            hrEmail |-> calls[c].caller, status |-> "active"])
    /\ Goto(c, "incUsers")
    /\ UNCHANGED <<users, assets, requests, assignedAssets>>
    /\ UNCH_counters
    /\ UNCHANGED billing

approveIncUsers(c) ==
    /\ calls[c].op = "approve" /\ calls[c].pc = "incUsers"
    /\ users' = [users EXCEPT ![calls[c].caller].currentEmployees = @ + 1]
    /\ Goto(c, "updateRequest")
    /\ UNCHANGED <<assets, requests, assignedAssets, employeeAffiliations>>
    /\ UNCH_counters
    /\ UNCHANGED billing

approveUpdateRequest(c) ==
    /\ calls[c].op = "approve" /\ calls[c].pc = "updateRequest"
    /\ requests' = SetApproved(calls[c].id)
    /\ Finish(c, 200)
    /\ UNCHANGED <<users, assets, assignedAssets, employeeAffiliations>>
    /\ UNCH_counters
    /\ UNCHANGED billing

\* ------------------------------------------------ PATCH /requests/:id/reject
reject(caller, id) ==
    /\ IF ~verifyHR(caller)
       THEN /\ UNCHANGED requests
            /\ Respond("reject", caller, id, "none", 403)
       ELSE IF PendingMatch(id, caller)
       THEN /\ requests' = [requests EXCEPT ![id].requestStatus = "rejected"]
            /\ Respond("reject", caller, id, "none", 200)
       ELSE /\ UNCHANGED requests
            /\ Respond("reject", caller, id, "none", 404)
    /\ UNCHANGED <<users, assets, assignedAssets, employeeAffiliations>>
    /\ UNCHANGED calls
    /\ UNCH_counters
    /\ UNCHANGED billing


\* -------------------------------------------- PATCH /assigned-assets/:id/return
\* findOne({_id, employeeEmail, status: "assigned", assetType: "Returnable"})
ReturnMatch(id, employeeEmail) ==
    /\ AssignedExists(id)
    /\ assignedAssets[id].employeeEmail = employeeEmail
    /\ assignedAssets[id].status = "assigned"
    /\ assignedAssets[id].assetType = "Returnable"

\* updateOne({_id}, {$set: {status: "returned", returnDate: new Date()}})
SetReturned(id, caller) ==
    IF AssignedExists(id)
    THEN [assignedAssets EXCEPT
            ![id].status = "returned",
            ![id].returnDate = now,
            ![id].via = IF assignedAssets[id].status = "assigned" THEN "return" ELSE @,
            ![id].by = IF assignedAssets[id].status = "assigned" THEN caller ELSE @]
    ELSE assignedAssets

returnStart(c, caller, id) ==
    /\ FirstFree(c)
    /\ Begin(c, "return", caller, id, "none", "findAssigned")
    /\ UNCHANGED DB
    /\ UNCH_counters
    /\ UNCHANGED billing

\* `assigned` is kept whether or not a document was found: there is no null check
returnFindAssigned(c) ==
    /\ calls[c].op = "return" /\ calls[c].pc = "findAssigned"
    /\ calls' = [calls EXCEPT ![c].pc = "updateAssigned",
                              ![c].found = ReturnMatch(calls[c].id, calls[c].caller)]
    /\ last' = NoResponse
    /\ UNCHANGED DB
    /\ UNCH_counters
    /\ UNCHANGED billing

returnUpdateAssigned(c) ==
    /\ calls[c].op = "return" /\ calls[c].pc = "updateAssigned"
    /\ assignedAssets' = SetReturned(calls[c].id, calls[c].caller)
    /\ Goto(c, "incAsset")
    /\ UNCHANGED <<users, assets, requests, employeeAffiliations>>
    /\ UNCH_counters
    /\ UNCHANGED billing

\* assigned.assetId throws when `assigned` is null: 500
returnIncAsset(c) ==
    /\ calls[c].op = "return" /\ calls[c].pc = "incAsset"
    /\ IF calls[c].found
       THEN /\ assets' = IncAvailable(assignedAssets[calls[c].id].assetId, 1)
            /\ assignedAssets' = [assignedAssets EXCEPT ![calls[c].id].incs =
                   IF AssetExists(assignedAssets[calls[c].id].assetId) THEN @ + 1 ELSE @]
            /\ Finish(c, 200)
       ELSE /\ UNCHANGED <<assets, assignedAssets>>
            /\ Finish(c, 500)
    /\ UNCHANGED <<users, requests, employeeAffiliations>>
    /\ UNCH_counters
    /\ UNCHANGED billing

\* ---------------------------------------- DELETE /employee-affiliations/:email

\* (mutant) the update whose filter matches no document
DeactivateNoMatch(employeeEmail, hrEmail) == employeeAffiliations

\* updateOne({employeeEmail, hrEmail}, {$set: {status: "inactive"}}): the first match
Deactivate(employeeEmail, hrEmail) ==
    LET m == {i \in 1 .. Len(employeeAffiliations) :
                 /\ employeeAffiliations[i].employeeEmail = employeeEmail
                 /\ employeeAffiliations[i].hrEmail = hrEmail}
    IN  IF m = {} THEN employeeAffiliations
        ELSE LET f == CHOOSE i \in m : \A j \in m : i <= j
             IN  [employeeAffiliations EXCEPT ![f].status = "inactive"]

\* the filter {employeeEmail, hrEmail, status} on assignedAssets
AssignedOf(employeeEmail, hrEmail, status) ==
    {i \in 1 .. Len(assignedAssets) :
        /\ assignedAssets[i].employeeEmail = employeeEmail
        /\ assignedAssets[i].hrEmail = hrEmail
        /\ assignedAssets[i].status = status}

\* updateMany({employeeEmail, hrEmail, status: "assigned"},
\*            {$set: {status: "returned", returnDate}, $inc: {availableQuantity: 1}})
\* the $inc is applied to the assignedAssets documents themselves
CascadeReturn(employeeEmail, hrEmail) ==
    [i \in 1 .. Len(assignedAssets) |->
        IF i \in AssignedOf(employeeEmail, hrEmail, "assigned")
        THEN [assignedAssets[i] EXCEPT
                !.status = "returned", !.returnDate = now,
                !.availableQuantity = @ + 1, !.via = "remove", !.by = hrEmail]
        ELSE assignedAssets[i]]

\* find({employeeEmail, hrEmail, status: "returned"}).toArray(): the asset ids,
\* in document order
RECURSIVE AssetIdsOf(_, _)
AssetIdsOf(ids, from) ==
    IF from > Len(assignedAssets) THEN <<>>
    ELSE IF from \in ids
         THEN <<assignedAssets[from].assetId>> \o AssetIdsOf(ids, from + 1)
         ELSE AssetIdsOf(ids, from + 1)

ReturnedAssets(employeeEmail, hrEmail) ==
    AssetIdsOf(AssignedOf(employeeEmail, hrEmail, "returned"), 1)

removeStart(c, caller, email) ==
    /\ FirstFree(c)
    /\ nRemovals < MaxRemovals
    /\ nRemovals' = nRemovals + 1
    /\ IF verifyHR(caller)
       THEN Begin(c, "remove", caller, 0, email, "deactivate")
       ELSE Respond("remove", caller, 0, email, 403) /\ UNCHANGED calls
    /\ UNCHANGED DB
    /\ UNCHANGED <<now, nFaults>>
    /\ UNCHANGED billing

removeDeactivate(c) ==
    /\ calls[c].op = "remove" /\ calls[c].pc = "deactivate"
    /\ employeeAffiliations' = Deactivate(calls[c].target, calls[c].caller)
    /\ Goto(c, "updateMany")
    /\ UNCHANGED <<users, assets, requests, assignedAssets>>
    /\ UNCH_counters
    /\ UNCHANGED billing

removeUpdateMany(c) ==
    /\ calls[c].op = "remove" /\ calls[c].pc = "updateMany"
    /\ assignedAssets' = CascadeReturn(calls[c].target, calls[c].caller)
    /\ Goto(c, "findReturned")
    /\ UNCHANGED <<users, assets, requests, employeeAffiliations>>
    /\ UNCH_counters
    /\ UNCHANGED billing

removeFindReturned(c) ==
    /\ calls[c].op = "remove" /\ calls[c].pc = "findReturned"
    /\ calls' = [calls EXCEPT ![c].pc = "loop",
                              ![c].queue = ReturnedAssets(calls[c].target, calls[c].caller)]
    /\ last' = NoResponse
    /\ UNCHANGED DB
    /\ UNCH_counters
    /\ UNCHANGED billing

\* for (const asset of returnedAssets) await assetCollection.updateOne(... $inc 1)
removeLoop(c) ==
    /\ calls[c].op = "remove" /\ calls[c].pc = "loop"
    /\ IF calls[c].queue = <<>>
       THEN /\ UNCHANGED assets
            /\ Goto(c, "decUsers")
       ELSE /\ assets' = IncAvailable(Head(calls[c].queue), 1)
            /\ calls' = [calls EXCEPT ![c].queue = Tail(@)]
            /\ last' = NoResponse
    /\ UNCHANGED <<users, requests, assignedAssets, employeeAffiliations>>
    /\ UNCH_counters
    /\ UNCHANGED billing

removeDecUsers(c) ==
    /\ calls[c].op = "remove" /\ calls[c].pc = "decUsers"
    /\ users' = [users EXCEPT ![calls[c].caller].currentEmployees = @ - 1]
    /\ Finish(c, 200)
    /\ UNCHANGED <<assets, requests, assignedAssets, employeeAffiliations>>
    /\ UNCH_counters
    /\ UNCHANGED billing

\* ------------------------------------------- POST /create-checkout-session
PackageNames == Packages \cup {"Unknown"}
SessionIds == 0 .. MaxSessions

\* $set: {subscription: pkg.name, packageLimit: pkg.employeeLimit}
SetPackage(hrEmail, name) ==
    [users EXCEPT ![hrEmail].subscription = name,
                  ![hrEmail].packageLimit = employeeLimit(name)]

\* the transactionId of a paid session is its payment_intent, one per session;
\* that of a free upgrade is "free-" + Date.now()
IntentOf(s) == [kind |-> "pi", n |-> s]
FreeId == [kind |-> "free", n |-> now]

checkoutStart(c, caller, packageName) ==
    /\ FirstFree(c)
    /\ Len(sessions) < MaxSessions
    /\ Len(payments) < MaxPayments
    /\ IF verifyHR(caller)
       THEN Begin(c, "checkout", caller, 0, packageName, "findPackage")
       ELSE Respond("checkout", caller, 0, packageName, 403) /\ UNCHANGED calls
    /\ UNCHANGED DB
    /\ UNCHANGED sessions
    /\ UNCH_counters

checkoutFindPackage(c) ==
    /\ calls[c].op = "checkout" /\ calls[c].pc = "findPackage"
    /\ IF calls[c].target \notin Packages THEN Finish(c, 400)
       ELSE IF price(calls[c].target) = 0 THEN Goto(c, "freeUpdate")
       ELSE Goto(c, "createSession")
    /\ UNCHANGED DB
    /\ UNCHANGED sessions
    /\ UNCH_counters

checkoutFreeUpdate(c) ==
    /\ calls[c].op = "checkout" /\ calls[c].pc = "freeUpdate"
    /\ users' = SetPackage(calls[c].caller, calls[c].target)
    /\ Goto(c, "freeInsert")
    /\ UNCHANGED <<assets, requests, assignedAssets, employeeAffiliations>>
    /\ UNCHANGED billing
    /\ UNCH_counters

checkoutFreeInsert(c) ==
    /\ calls[c].op = "checkout" /\ calls[c].pc = "freeInsert"
    /\ payments' = Append(payments,
           [hrEmail |-> calls[c].caller, packageName |-> calls[c].target,
            transactionId |-> FreeId])
    /\ Finish(c, 200)
    /\ UNCHANGED <<users, assets, requests, assignedAssets, employeeAffiliations>>
    /\ UNCHANGED sessions
    /\ UNCH_counters

\* stripe.checkout.sessions.create: the session carries the caller and the
\* package in its metadata and is not paid yet
checkoutCreateSession(c) ==
    /\ calls[c].op = "checkout" /\ calls[c].pc = "createSession"
    /\ sessions' = Append(sessions,
           [hrEmail |-> calls[c].caller, packageName |-> calls[c].target,
            paid |-> FALSE])
    /\ Finish(c, 200)
    /\ UNCHANGED DB
    /\ UNCH_counters

\* the customer pays on the processor's page
Pay(s) ==
    /\ s \in 1 .. Len(sessions)
    /\ ~sessions[s].paid
    /\ sessions' = [sessions EXCEPT ![s].paid = TRUE]
    /\ last' = NoResponse
    /\ UNCHANGED DB
    /\ UNCHANGED calls
    /\ UNCH_counters

\* ----------------------------------------------------- POST /confirm-payment
\* findOne({transactionId}) on payments
ExistingPayment(transactionId) ==
    \E i \in 1 .. Len(payments) : payments[i].transactionId = transactionId

\* session_id 0 stands for a body without session_id
confirmStart(c, caller, s) ==
    /\ FirstFree(c)
    /\ IF ~verifyHR(caller)
       THEN Respond("confirm", caller, s, "none", 403) /\ UNCHANGED calls
       ELSE IF s = 0
       THEN Respond("confirm", caller, s, "none", 400) /\ UNCHANGED calls
       ELSE Begin(c, "confirm", caller, s, "none", "retrieve")
    /\ UNCHANGED DB
    /\ UNCHANGED sessions
    /\ UNCH_counters

\* stripe.checkout.sessions.retrieve throws for an unknown id: 500
confirmRetrieve(c) ==
    /\ calls[c].op = "confirm" /\ calls[c].pc = "retrieve"
    /\ IF calls[c].id \notin 1 .. Len(sessions) THEN Finish(c, 500)
       ELSE IF ~sessions[calls[c].id].paid THEN Finish(c, 400)
       ELSE Goto(c, "findPackage")
    /\ UNCHANGED DB
    /\ UNCHANGED sessions
    /\ UNCH_counters

\* pkg.name throws when the package is not found: 500
confirmFindPackage(c) ==
    /\ calls[c].op = "confirm" /\ calls[c].pc = "findPackage"
    /\ IF sessions[calls[c].id].packageName \in Packages
       THEN Goto(c, "updateUser")
       ELSE Finish(c, 500)
    /\ UNCHANGED DB
    /\ UNCHANGED sessions
    /\ UNCH_counters

\* the user of the session's metadata is upgraded before the payment is looked up
confirmUpdateUser(c) ==
    /\ calls[c].op = "confirm" /\ calls[c].pc = "updateUser"
    /\ users' = SetPackage(sessions[calls[c].id].hrEmail,
                           sessions[calls[c].id].packageName)
    /\ Goto(c, "findPayment")
    /\ UNCHANGED <<assets, requests, assignedAssets, employeeAffiliations>>
    /\ UNCHANGED billing
    /\ UNCH_counters

confirmFindPayment(c) ==
    /\ calls[c].op = "confirm" /\ calls[c].pc = "findPayment"
    /\ IF ExistingPayment(IntentOf(calls[c].id))
       THEN Finish(c, 200)
       ELSE Goto(c, "insertPayment")
    /\ UNCHANGED DB
    /\ UNCHANGED sessions
    /\ UNCH_counters

confirmInsertPayment(c) ==
    /\ calls[c].op = "confirm" /\ calls[c].pc = "insertPayment"
    /\ payments' = Append(payments,
           [hrEmail |-> sessions[calls[c].id].hrEmail,
            packageName |-> sessions[calls[c].id].packageName,
            transactionId |-> IntentOf(calls[c].id)])
    /\ Finish(c, 200)
    /\ UNCHANGED <<users, assets, requests, assignedAssets, employeeAffiliations>>
    /\ UNCHANGED sessions
    /\ UNCH_counters

\* --------------------------------------------------------------- environment
\* A storage operation awaited inside a try block throws before it is applied:
\* the catch block answers 500.  (approve, return and remove are the handlers
\* whose awaits are inside a try block.)
StorageFault(c) ==
    /\ InFlight(c)
    /\ nFaults < MaxFaults
    /\ nFaults' = nFaults + 1
    /\ Finish(c, 500)
    /\ UNCHANGED DB
    /\ UNCHANGED <<now, nRemovals>>
    /\ UNCHANGED billing

Tick ==
    /\ now < MaxTime
    /\ now' = now + 1
    /\ UNCHANGED DB
    /\ last' = NoResponse
    /\ UNCHANGED <<calls, nFaults, nRemovals>>
    /\ UNCHANGED billing

\* ------------------------------------------------------------ specifications
\* The whole server: every handler, any caller, any body, handlers interleaved
\* at their awaits, storage operations that may throw, the clock advancing.
Next ==
    \/ \E h \in Emails, q \in Quantities : createAsset(h, q) /\ UNCHANGED hist
    \/ \E h \in Emails, a \in AssetIds, q \in Quantities :
           editAsset(h, a, q) /\ UNCHANGED hist
    \/ \E h \in Emails, a \in AssetIds : deleteAsset(h, a) /\ UNCHANGED hist
    \/ \E e \in Employees, a \in AssetIds, t \in Types, h \in HRs :
           createRequest(e, a, t, h) /\ UNCHANGED hist
    \/ \E h \in Emails, r \in RequestIds : reject(h, r) /\ UNCHANGED hist
    \/ \E c \in Slots, h \in Emails, r \in RequestIds :
           approveStart(c, h, r) /\ UNCHANGED hist
    \/ \E c \in Slots, u \in Emails, i \in AssignedIds :
           returnStart(c, u, i) /\ UNCHANGED hist
    \/ \E c \in Slots, h \in Emails, e \in Employees :
           removeStart(c, h, e) /\ UNCHANGED hist
    \/ \E c \in Slots : approveFindRequest(c) /\ UNCHANGED hist
    \/ \E c \in Slots : approveFindAsset(c) /\ UNCHANGED hist
    \/ \E c \in Slots : approveDecAsset(c) /\ UNCHANGED hist
    \/ \E c \in Slots : approveInsertAssigned(c) /\ UNCHANGED hist
    \/ \E c \in Slots : approveFindAff(c) /\ UNCHANGED hist
    \/ \E c \in Slots : approveInsertAff(c) /\ UNCHANGED hist
    \/ \E c \in Slots : approveIncUsers(c) /\ UNCHANGED hist
    \/ \E c \in Slots : approveUpdateRequest(c) /\ UNCHANGED hist
    \/ \E c \in Slots : returnFindAssigned(c) /\ UNCHANGED hist
    \/ \E c \in Slots : returnUpdateAssigned(c) /\ UNCHANGED hist
    \/ \E c \in Slots : returnIncAsset(c) /\ UNCHANGED hist
    \/ \E c \in Slots : removeDeactivate(c) /\ UNCHANGED hist
    \/ \E c \in Slots : removeUpdateMany(c) /\ UNCHANGED hist
    \/ \E c \in Slots : removeFindReturned(c) /\ UNCHANGED hist
    \/ \E c \in Slots : removeLoop(c) /\ UNCHANGED hist
    \/ \E c \in Slots : removeDecUsers(c) /\ UNCHANGED hist
    \/ \E c \in Slots, h \in Emails, p \in PackageNames :
           checkoutStart(c, h, p) /\ UNCHANGED hist
    \/ \E c \in Slots, h \in Emails, n \in SessionIds :
           confirmStart(c, h, n) /\ UNCHANGED hist
    \/ \E n \in SessionIds : Pay(n) /\ UNCHANGED hist
    \/ \E c \in Slots : checkoutFindPackage(c) /\ UNCHANGED hist
    \/ \E c \in Slots : checkoutFreeUpdate(c) /\ UNCHANGED hist
    \/ \E c \in Slots : checkoutFreeInsert(c) /\ UNCHANGED hist
    \/ \E c \in Slots : checkoutCreateSession(c) /\ UNCHANGED hist
    \/ \E c \in Slots : confirmRetrieve(c) /\ UNCHANGED hist
    \/ \E c \in Slots : confirmFindPackage(c) /\ UNCHANGED hist
    \/ \E c \in Slots : confirmUpdateUser(c) /\ UNCHANGED hist
    \/ \E c \in Slots : confirmFindPayment(c) /\ UNCHANGED hist
    \/ \E c \in Slots : confirmInsertPayment(c) /\ UNCHANGED hist
    \/ \E c \in Slots : StorageFault(c) /\ UNCHANGED hist
    \/ Tick /\ UNCHANGED hist

Spec == Init /\ [][Next]_vars

\* Concurrent handlers of one company and one employee: the request workflow
\* interleaved at every await.
NextConc ==
    \/ \E q \in 0 .. MaxQty : createAsset("h1", q) /\ UNCHANGED hist
    \/ \E a \in AssetIds : createRequest("e1", a, "Returnable", "h1") /\ UNCHANGED hist
    \/ \E r \in RequestIds : reject("h1", r) /\ UNCHANGED hist
    \/ \E c \in Slots, r \in RequestIds : approveStart(c, "h1", r) /\ UNCHANGED hist
    \/ \E c \in Slots, i \in AssignedIds : returnStart(c, "e1", i) /\ UNCHANGED hist
    \/ \E c \in Slots : approveFindRequest(c) /\ UNCHANGED hist
    \/ \E c \in Slots : approveFindAsset(c) /\ UNCHANGED hist
    \/ \E c \in Slots : approveDecAsset(c) /\ UNCHANGED hist
    \/ \E c \in Slots : approveInsertAssigned(c) /\ UNCHANGED hist
    \/ \E c \in Slots : approveFindAff(c) /\ UNCHANGED hist
    \/ \E c \in Slots : approveInsertAff(c) /\ UNCHANGED hist
    \/ \E c \in Slots : approveIncUsers(c) /\ UNCHANGED hist
    \/ \E c \in Slots : approveUpdateRequest(c) /\ UNCHANGED hist
    \/ \E c \in Slots : returnFindAssigned(c) /\ UNCHANGED hist
    \/ \E c \in Slots : returnUpdateAssigned(c) /\ UNCHANGED hist
    \/ \E c \in Slots : returnIncAsset(c) /\ UNCHANGED hist

SpecConc == Init /\ [][NextConc]_vars

\* One handler at a time: a call starts only when no other is in flight, and the
\* collections are recorded as it starts.  h2 is the HR of another company, e2 a
\* caller whose stored role is not "hr".
SeqHR == {"h1", "e2"}
SeqCallers == {"h1", "h2", "e2"}
Record == snap' = DB /\ UNCHANGED log

NextSeq ==
    \/ \E h \in SeqHR, q \in Quantities :
           AllIdle /\ createAsset(h, q) /\ Record
    \/ \E h \in SeqCallers, a \in AssetIds, q \in Quantities :
           AllIdle /\ editAsset(h, a, q) /\ Record
    \/ \E h \in SeqCallers, a \in AssetIds :
           AllIdle /\ deleteAsset(h, a) /\ Record
    \/ \E a \in AssetIds, t \in Types :
           AllIdle /\ createRequest("e1", a, t, "h1") /\ Record
    \/ \E h \in SeqCallers, r \in RequestIds :
           AllIdle /\ reject(h, r) /\ Record
    \/ \E c \in Slots, h \in SeqCallers, r \in RequestIds :
           AllIdle /\ approveStart(c, h, r) /\ Record
    \/ \E c \in Slots, u \in Employees, i \in AssignedIds :
           AllIdle /\ returnStart(c, u, i) /\ Record
    \/ \E c \in Slots, h \in SeqHR, e \in Employees :
           AllIdle /\ removeStart(c, h, e) /\ Record
    \/ \E c \in Slots : approveFindRequest(c) /\ UNCHANGED hist
    \/ \E c \in Slots : approveFindAsset(c) /\ UNCHANGED hist
    \/ \E c \in Slots : approveDecAsset(c) /\ UNCHANGED hist
    \/ \E c \in Slots : approveInsertAssigned(c) /\ UNCHANGED hist
    \/ \E c \in Slots : approveFindAff(c) /\ UNCHANGED hist
    \/ \E c \in Slots : approveInsertAff(c) /\ UNCHANGED hist
    \/ \E c \in Slots : approveIncUsers(c) /\ UNCHANGED hist
    \/ \E c \in Slots : approveUpdateRequest(c) /\ UNCHANGED hist
    \/ \E c \in Slots : returnFindAssigned(c) /\ UNCHANGED hist
    \/ \E c \in Slots : returnUpdateAssigned(c) /\ UNCHANGED hist
    \/ \E c \in Slots : returnIncAsset(c) /\ UNCHANGED hist
    \/ \E c \in Slots : removeDeactivate(c) /\ UNCHANGED hist
    \/ \E c \in Slots : removeUpdateMany(c) /\ UNCHANGED hist
    \/ \E c \in Slots : removeFindReturned(c) /\ UNCHANGED hist
    \/ \E c \in Slots : removeLoop(c) /\ UNCHANGED hist
    \/ \E c \in Slots : removeDecUsers(c) /\ UNCHANGED hist

SpecSeq == Init /\ [][NextSeq]_vars

\* One handler at a time, and a storage operation may throw.
NextFault ==
    \/ \E q \in 0 .. MaxQty : AllIdle /\ createAsset("h1", q) /\ UNCHANGED hist
    \/ \E a \in AssetIds :
           AllIdle /\ createRequest("e1", a, "Returnable", "h1") /\ UNCHANGED hist
    \/ \E c \in Slots, r \in RequestIds :
           AllIdle /\ approveStart(c, "h1", r) /\ UNCHANGED hist
    \/ \E c \in Slots, i \in AssignedIds :
           AllIdle /\ returnStart(c, "e1", i) /\ UNCHANGED hist
    \/ \E c \in Slots : approveFindRequest(c) /\ UNCHANGED hist
    \/ \E c \in Slots : approveFindAsset(c) /\ UNCHANGED hist
    \/ \E c \in Slots : approveDecAsset(c) /\ UNCHANGED hist
    \/ \E c \in Slots : approveInsertAssigned(c) /\ UNCHANGED hist
    \/ \E c \in Slots : approveFindAff(c) /\ UNCHANGED hist
    \/ \E c \in Slots : approveInsertAff(c) /\ UNCHANGED hist
    \/ \E c \in Slots : approveIncUsers(c) /\ UNCHANGED hist
    \/ \E c \in Slots : approveUpdateRequest(c) /\ UNCHANGED hist
    \/ \E c \in Slots : returnFindAssigned(c) /\ UNCHANGED hist
    \/ \E c \in Slots : returnUpdateAssigned(c) /\ UNCHANGED hist
    \/ \E c \in Slots : returnIncAsset(c) /\ UNCHANGED hist
    \/ \E c \in Slots : StorageFault(c) /\ UNCHANGED hist

SpecFault == Init /\ [][NextFault]_vars

\* The approval race: one asset with available = total = k, MaxCalls pending
\* requests for it, and one approve call per request, all started (each has
\* passed verifyJWT and verifyHR) before any of them reads the collections.
\* No other handler runs.
InitRace ==
    /\ users = [h \in HRs |-> NewHR]
    /\ payments = <<>>
    /\ sessions = <<>>
    /\ \E k \in 0 .. MaxQty :
           assets = <<[hrEmail |-> "h1", productQuantity |-> k,
                       availableQuantity |-> k, deleted |-> FALSE]>>
    /\ \E e \in [1 .. MaxCalls -> Employees] :
           requests = [r \in 1 .. MaxCalls |->
               [assetId |-> 1, assetType |-> "Returnable", hrEmail |-> "h1",
                requesterEmail |-> e[r], requestStatus |-> "pending", decs |-> 0]]
    /\ assignedAssets = <<>>
    /\ employeeAffiliations = <<>>
    /\ calls = [c \in Slots |->
           [IdleCall EXCEPT !.op = "approve", !.pc = "findRequest",
                            !.caller = "h1", !.id = c]]
    /\ last = NoResponse
    /\ now = 0
    /\ nFaults = 0
    /\ nRemovals = 0
    /\ snap = <<>>
    /\ log = <<>>

\* every response sent is appended to the log
Logged ==
    /\ log' = IF last' = NoResponse THEN log ELSE Append(log, last')
    /\ UNCHANGED snap

NextRace ==
    \/ \E c \in Slots : approveFindRequest(c) /\ Logged
    \/ \E c \in Slots : approveFindAsset(c) /\ Logged
    \/ \E c \in Slots : approveDecAsset(c) /\ Logged
    \/ \E c \in Slots : approveInsertAssigned(c) /\ Logged
    \/ \E c \in Slots : approveFindAff(c) /\ Logged
    \/ \E c \in Slots : approveInsertAff(c) /\ Logged
    \/ \E c \in Slots : approveIncUsers(c) /\ Logged
    \/ \E c \in Slots : approveUpdateRequest(c) /\ Logged

SpecRace == InitRace /\ [][NextRace]_vars

\* One handler at a time, one company, and the clock advancing between and
\* during the calls: the life of an assignment from approval to its returns.
NextReturn ==
    \/ \E q \in 0 .. MaxQty : AllIdle /\ createAsset("h1", q) /\ Record
    \/ \E a \in AssetIds, t \in Types :
           AllIdle /\ createRequest("e1", a, t, "h1") /\ Record
    \/ \E c \in Slots, r \in RequestIds :
           AllIdle /\ approveStart(c, "h1", r) /\ Record
    \/ \E c \in Slots, u \in Employees, i \in AssignedIds :
           AllIdle /\ returnStart(c, u, i) /\ Record
    \/ \E c \in Slots : approveFindRequest(c) /\ UNCHANGED hist
    \/ \E c \in Slots : approveFindAsset(c) /\ UNCHANGED hist
    \/ \E c \in Slots : approveDecAsset(c) /\ UNCHANGED hist
    \/ \E c \in Slots : approveInsertAssigned(c) /\ UNCHANGED hist
    \/ \E c \in Slots : approveFindAff(c) /\ UNCHANGED hist
    \/ \E c \in Slots : approveInsertAff(c) /\ UNCHANGED hist
    \/ \E c \in Slots : approveIncUsers(c) /\ UNCHANGED hist
    \/ \E c \in Slots : approveUpdateRequest(c) /\ UNCHANGED hist
    \/ \E c \in Slots : returnFindAssigned(c) /\ UNCHANGED hist
    \/ \E c \in Slots : returnUpdateAssigned(c) /\ UNCHANGED hist
    \/ \E c \in Slots : returnIncAsset(c) /\ UNCHANGED hist
    \/ Tick /\ UNCHANGED hist

SpecReturn == Init /\ [][NextReturn]_vars

\* The affiliation race: as the approval race, with stock for every request
\* (available = total = MaxCalls), so that every call passes the availability
\* test on its own.
InitAff ==
    /\ users = [h \in HRs |-> NewHR]
    /\ payments = <<>>
    /\ sessions = <<>>
    /\ assets = <<[hrEmail |-> "h1", productQuantity |-> MaxCalls,
                   availableQuantity |-> MaxCalls, deleted |-> FALSE]>>
    /\ \E e \in [1 .. MaxCalls -> Employees] :
           requests = [r \in 1 .. MaxCalls |->
               [assetId |-> 1, assetType |-> "Returnable", hrEmail |-> "h1",
                requesterEmail |-> e[r], requestStatus |-> "pending", decs |-> 0]]
    /\ assignedAssets = <<>>
    /\ employeeAffiliations = <<>>
    /\ calls = [c \in Slots |->
           [IdleCall EXCEPT !.op = "approve", !.pc = "findRequest",
                            !.caller = "h1", !.id = c]]
    /\ last = NoResponse
    /\ now = 0
    /\ nFaults = 0
    /\ nRemovals = 0
    /\ snap = <<>>
    /\ log = <<>>

SpecAff == InitAff /\ [][NextRace]_vars

\* Two companies, one handler at a time: each HR creates assets and acts on
\* requests, and a request names any asset and any company, as its body is sent.
NextTenant ==
    \/ \E h \in HRs, q \in 0 .. MaxQty : AllIdle /\ createAsset(h, q) /\ Record
    \/ \E h \in HRs, a \in AssetIds, q \in 0 .. MaxQty :
           AllIdle /\ editAsset(h, a, q) /\ Record
    \/ \E h \in HRs, a \in AssetIds : AllIdle /\ deleteAsset(h, a) /\ Record
    \/ \E a \in AssetIds, h \in HRs :
           AllIdle /\ createRequest("e1", a, "Returnable", h) /\ Record
    \/ \E h \in HRs, r \in RequestIds : AllIdle /\ reject(h, r) /\ Record
    \/ \E c \in Slots, h \in HRs, r \in RequestIds :
           AllIdle /\ approveStart(c, h, r) /\ Record
    \/ \E c \in Slots, h \in HRs :
           AllIdle /\ removeStart(c, h, "e1") /\ Record
    \/ \E c \in Slots : approveFindRequest(c) /\ UNCHANGED hist
    \/ \E c \in Slots : approveFindAsset(c) /\ UNCHANGED hist
    \/ \E c \in Slots : approveDecAsset(c) /\ UNCHANGED hist
    \/ \E c \in Slots : approveInsertAssigned(c) /\ UNCHANGED hist
    \/ \E c \in Slots : approveFindAff(c) /\ UNCHANGED hist
    \/ \E c \in Slots : approveInsertAff(c) /\ UNCHANGED hist
    \/ \E c \in Slots : approveIncUsers(c) /\ UNCHANGED hist
    \/ \E c \in Slots : approveUpdateRequest(c) /\ UNCHANGED hist
    \/ \E c \in Slots : removeDeactivate(c) /\ UNCHANGED hist
    \/ \E c \in Slots : removeUpdateMany(c) /\ UNCHANGED hist
    \/ \E c \in Slots : removeFindReturned(c) /\ UNCHANGED hist
    \/ \E c \in Slots : removeLoop(c) /\ UNCHANGED hist
    \/ \E c \in Slots : removeDecUsers(c) /\ UNCHANGED hist

SpecTenant == Init /\ [][NextTenant]_vars

\* Upgrades of one company, the handlers interleaved at every await: paid
\* checkouts, the customer paying, and confirmations of the sessions.
NextPay ==
    \/ \E c \in Slots : checkoutStart(c, "h1", "Standard") /\ UNCHANGED hist
    \/ \E c \in Slots, n \in 1 .. MaxSessions :
           confirmStart(c, "h1", n) /\ UNCHANGED hist
    \/ \E n \in 1 .. MaxSessions : Pay(n) /\ UNCHANGED hist
    \/ \E c \in Slots : checkoutFindPackage(c) /\ UNCHANGED hist
    \/ \E c \in Slots : checkoutCreateSession(c) /\ UNCHANGED hist
    \/ \E c \in Slots : confirmRetrieve(c) /\ UNCHANGED hist
    \/ \E c \in Slots : confirmFindPackage(c) /\ UNCHANGED hist
    \/ \E c \in Slots : confirmUpdateUser(c) /\ UNCHANGED hist
    \/ \E c \in Slots : confirmFindPayment(c) /\ UNCHANGED hist
    \/ \E c \in Slots : confirmInsertPayment(c) /\ UNCHANGED hist

SpecPay == Init /\ [][NextPay]_vars

\* Upgrades, one handler at a time, any HR, any package, any session id,
\* the clock advancing.
NextPaySeq ==
    \/ \E c \in Slots, h \in SeqCallers, p \in PackageNames :
           AllIdle /\ checkoutStart(c, h, p) /\ Record
    \/ \E c \in Slots, h \in SeqCallers, n \in SessionIds :
           AllIdle /\ confirmStart(c, h, n) /\ Record
    \/ \E n \in SessionIds : Pay(n) /\ UNCHANGED hist
    \/ \E c \in Slots : checkoutFindPackage(c) /\ UNCHANGED hist
    \/ \E c \in Slots : checkoutFreeUpdate(c) /\ UNCHANGED hist
    \/ \E c \in Slots : checkoutFreeInsert(c) /\ UNCHANGED hist
    \/ \E c \in Slots : checkoutCreateSession(c) /\ UNCHANGED hist
    \/ \E c \in Slots : confirmRetrieve(c) /\ UNCHANGED hist
    \/ \E c \in Slots : confirmFindPackage(c) /\ UNCHANGED hist
    \/ \E c \in Slots : confirmUpdateUser(c) /\ UNCHANGED hist
    \/ \E c \in Slots : confirmFindPayment(c) /\ UNCHANGED hist
    \/ \E c \in Slots : confirmInsertPayment(c) /\ UNCHANGED hist
    \/ Tick /\ UNCHANGED hist

SpecPaySeq == Init /\ [][NextPaySeq]_vars

\* The employees of one company against its package: approvals for two
\* employees, removals, restocking, and the company changing its package, one
\* handler at a time.
NextLimit ==
    \/ \E q \in 0 .. MaxQty : AllIdle /\ createAsset("h1", q) /\ Record
    \/ \E a \in AssetIds, q \in 0 .. MaxQty :
           AllIdle /\ editAsset("h1", a, q) /\ Record
    \/ \E e \in Employees, a \in AssetIds :
           AllIdle /\ createRequest(e, a, "Returnable", "h1") /\ Record
    \/ \E c \in Slots, r \in RequestIds :
           AllIdle /\ approveStart(c, "h1", r) /\ Record
    \/ \E c \in Slots, e \in Employees :
           AllIdle /\ removeStart(c, "h1", e) /\ Record
    \/ \E c \in Slots, p \in Packages :
           AllIdle /\ checkoutStart(c, "h1", p) /\ Record
    \/ \E c \in Slots, n \in 1 .. MaxSessions :
           AllIdle /\ confirmStart(c, "h1", n) /\ Record
    \/ \E n \in 1 .. MaxSessions : Pay(n) /\ UNCHANGED hist
    \/ \E c \in Slots : approveFindRequest(c) /\ UNCHANGED hist
    \/ \E c \in Slots : approveFindAsset(c) /\ UNCHANGED hist
    \/ \E c \in Slots : approveDecAsset(c) /\ UNCHANGED hist
    \/ \E c \in Slots : approveInsertAssigned(c) /\ UNCHANGED hist
    \/ \E c \in Slots : approveFindAff(c) /\ UNCHANGED hist
    \/ \E c \in Slots : approveInsertAff(c) /\ UNCHANGED hist
    \/ \E c \in Slots : approveIncUsers(c) /\ UNCHANGED hist
    \/ \E c \in Slots : approveUpdateRequest(c) /\ UNCHANGED hist
    \/ \E c \in Slots : removeDeactivate(c) /\ UNCHANGED hist
    \/ \E c \in Slots : removeUpdateMany(c) /\ UNCHANGED hist
    \/ \E c \in Slots : removeFindReturned(c) /\ UNCHANGED hist
    \/ \E c \in Slots : removeLoop(c) /\ UNCHANGED hist
    \/ \E c \in Slots : removeDecUsers(c) /\ UNCHANGED hist
    \/ \E c \in Slots : checkoutFindPackage(c) /\ UNCHANGED hist
    \/ \E c \in Slots : checkoutFreeUpdate(c) /\ UNCHANGED hist
    \/ \E c \in Slots : checkoutFreeInsert(c) /\ UNCHANGED hist
    \/ \E c \in Slots : checkoutCreateSession(c) /\ UNCHANGED hist
    \/ \E c \in Slots : confirmRetrieve(c) /\ UNCHANGED hist
    \/ \E c \in Slots : confirmFindPackage(c) /\ UNCHANGED hist
    \/ \E c \in Slots : confirmUpdateUser(c) /\ UNCHANGED hist
    \/ \E c \in Slots : confirmFindPayment(c) /\ UNCHANGED hist
    \/ \E c \in Slots : confirmInsertPayment(c) /\ UNCHANGED hist

SpecLimit == Init /\ [][NextLimit]_vars

\* ==================================================================== claims
\* What the sequential specification recorded when the latest call started.
SnapUsers == snap[1]
SnapAssets == snap[2]
SnapRequests == snap[3]
SnapAssigned == snap[4]
SnapAffiliations == snap[5]

\* the call c takes a step
Steps(c) == calls'[c] # calls[c]

AssignedFor(r) == {i \in 1 .. Len(assignedAssets) : assignedAssets[i].requestId = r}
ApproveInFlight(r) ==
    \E c \in Slots : InFlight(c) /\ calls[c].op = "approve" /\ calls[c].id = r

\* C1: every asset has 0 <= availableQuantity <= productQuantity, in every
\* reachable state.
C1_AvailableWithinTotal ==
    \A a \in 1 .. Len(assets) :
        ~assets[a].deleted =>
            /\ 0 <= assets[a].availableQuantity
            /\ assets[a].availableQuantity <= assets[a].productQuantity

\* C2: when the MaxCalls concurrent approvals of the race have all answered, with
\* the asset's available k at the start, exactly k answered 200, the other
\* MaxCalls - k answered 400 (asset no longer available), and available is
\* max(k - MaxCalls, 0) = 0; it is never below 0 on the way.
Answers(code) == {i \in 1 .. Len(log) : log[i].result = code}
C2_ExactlyKSucceed ==
    /\ assets[1].availableQuantity >= 0
    /\ AllIdle =>
        /\ Cardinality(Answers(200)) = assets[1].productQuantity
        /\ Cardinality(Answers(400)) = MaxCalls - assets[1].productQuantity
        /\ assets[1].availableQuantity = 0

\* C3: an approve call that looks up a request whose status is already approved
\* or rejected answers 404 at that step and changes no collection: the asset
\* quantities, the assignments, the affiliations, the employee counters and the
\* request statuses are as before.
C3_ApproveResolvedFails ==
    [][\A c \in Slots :
          ( /\ calls[c].op = "approve"
            /\ calls[c].pc = "findRequest"
            /\ RequestExists(calls[c].id)
            /\ requests[calls[c].id].requestStatus \in {"approved", "rejected"}
            /\ Steps(c) )
          => /\ calls'[c] = IdleCall
             /\ last'.op = "approve" /\ last'.id = calls[c].id
             /\ last'.result = 404
             /\ DB' = DB]_vars

C3_Witness ==
    /\ last.op = "approve" /\ last.result = 404
    /\ RequestExists(last.id)
    /\ requests[last.id].hrEmail = last.caller
    /\ requests[last.id].requestStatus = "approved"
    /\ \E c \in Slots : InFlight(c)

\* C4: each request causes at most one inventory decrement and at most one
\* assignment over its whole life.
C4_AtMostOneEffectPerRequest ==
    \A r \in 1 .. Len(requests) :
        /\ requests[r].decs <= 1
        /\ Cardinality(AssignedFor(r)) <= 1

\* C5: once no approve call for a request is in flight, an inventory decrement
\* made for that request comes with its assignment and its approved status; and
\* an approve call that answers a failure leaves no decrement behind.
C5_ApproveAllOrNothing ==
    \A r \in 1 .. Len(requests) :
        (requests[r].decs > 0 /\ ~ApproveInFlight(r)) =>
            /\ AssignedFor(r) # {}
            /\ requests[r].requestStatus = "approved"

\* C6: a request's status, once approved or rejected, never changes again.
C6_StatusOneWay ==
    [][\A r \in 1 .. Len(requests) :
          requests[r].requestStatus # "pending" =>
              requests'[r].requestStatus = requests[r].requestStatus]_vars

\* the latest step answered an approve call, run alone, with this status code
ApproveAnswered(code) == AllIdle /\ last.op = "approve" /\ last.result = code

SnapAssetExists(id) == id \in 1 .. Len(SnapAssets) /\ ~SnapAssets[id].deleted
SnapHadAffiliation(employeeEmail, hrEmail) ==
    \E i \in 1 .. Len(SnapAffiliations) :
        /\ SnapAffiliations[i].employeeEmail = employeeEmail
        /\ SnapAffiliations[i].hrEmail = hrEmail

\* C7: an approve call that runs alone and answers 200 was made by the owning HR
\* on a pending request whose asset had available > 0; it leaves that asset's
\* available one lower, one more assignment (status assigned, for the requester
\* and the HR's company), the request approved, every other request and asset as
\* it was; and it adds an active affiliation and raises the HR's employee
\* counter by 1 exactly when no affiliation for (requester, company) existed.
C7_ApproveEffect ==
    ApproveAnswered(200) =>
        LET r == last.id
            h == last.caller
            req == SnapRequests[r]
            n == Len(SnapAssigned)
        IN  /\ req.requestStatus = "pending" /\ req.hrEmail = h
            /\ SnapAssetExists(req.assetId)
            /\ SnapAssets[req.assetId].availableQuantity > 0
            /\ assets = [SnapAssets EXCEPT
                            ![req.assetId].availableQuantity = @ - 1]
            /\ Len(assignedAssets) = n + 1
            /\ SubSeq(assignedAssets, 1, n) = SnapAssigned
            /\ assignedAssets[n + 1].status = "assigned"
            /\ assignedAssets[n + 1].employeeEmail = req.requesterEmail
            /\ assignedAssets[n + 1].hrEmail = h
            /\ assignedAssets[n + 1].assetId = req.assetId
            /\ Len(requests) = Len(SnapRequests)
            /\ requests[r].requestStatus = "approved"
            /\ \A o \in 1 .. Len(requests) : o # r => requests[o] = SnapRequests[o]
            /\ IF SnapHadAffiliation(req.requesterEmail, h)
               THEN /\ employeeAffiliations = SnapAffiliations
                    /\ users = SnapUsers
               ELSE /\ employeeAffiliations = Append(SnapAffiliations,
                           [employeeEmail |-> req.requesterEmail, hrEmail |-> h,
                            status |-> "active"])
                    /\ users = [SnapUsers EXCEPT ![h].currentEmployees = @ + 1]

\* an approval that found the pair's affiliation in place, inactive after a removal
C7_Witness ==
    /\ ApproveAnswered(200)
    /\ SnapHadAffiliation(SnapRequests[last.id].requesterEmail, last.caller)
    /\ \E i \in 1 .. Len(SnapAffiliations) : SnapAffiliations[i].status = "inactive"

\* C8: an approve call, run alone by the owning HR on a pending request whose
\* asset exists with available <= 0, answers 400 (asset no longer available)
\* and leaves every collection as it was.
C8_ApproveUnavailable ==
    ( /\ AllIdle /\ last.op = "approve"
      /\ verifyHR(last.caller)
      /\ last.id \in 1 .. Len(SnapRequests)
      /\ SnapRequests[last.id].requestStatus = "pending"
      /\ SnapRequests[last.id].hrEmail = last.caller
      /\ SnapAssetExists(SnapRequests[last.id].assetId)
      /\ SnapAssets[SnapRequests[last.id].assetId].availableQuantity <= 0 )
    => /\ last.result = 400
       /\ DB = snap

\* the second request for an asset whose only unit was assigned by the first
C8_Witness ==
    /\ ApproveAnswered(400)
    /\ SnapRequests[last.id].requestStatus = "pending"
    /\ SnapAssets[SnapRequests[last.id].assetId].availableQuantity = 0
    /\ SnapAssets[SnapRequests[last.id].assetId].productQuantity > 0
    /\ Len(assignedAssets) > 0

\* C9: no step of a return call on an assignment whose asset type is not
\* Returnable changes an assignment or an asset quantity, and the call does not
\* answer 200.
C9_NonReturnableNeverReturned ==
    [][\A c \in Slots :
          ( /\ calls[c].op = "return"
            /\ AssignedExists(calls[c].id)
            /\ assignedAssets[calls[c].id].assetType # "Returnable"
            /\ Steps(c) )
          => /\ assignedAssets' = assignedAssets
             /\ assets' = assets
             /\ last'.result # 200]_vars

\* C10: no step of a return call made by a caller who is not the employee of the
\* assignment changes an assignment (status, return date) or an asset quantity,
\* and the call does not answer 200.
C10_ReturnByOtherChangesNothing ==
    [][\A c \in Slots :
          ( /\ calls[c].op = "return"
            /\ AssignedExists(calls[c].id)
            /\ assignedAssets[calls[c].id].employeeEmail # calls[c].caller
            /\ Steps(c) )
          => /\ assignedAssets' = assignedAssets
             /\ assets' = assets
             /\ last'.result # 200]_vars

\* the latest step answered a return call, run alone
ReturnAnswered == AllIdle /\ last.op = "return"

\* C11: a return call run alone by the owning employee on an assigned Returnable
\* assignment (asset in place) answers 200, leaves the assignment returned and
\* the asset's available one higher; the same call replayed on the assignment
\* it returned answers 404 and leaves the assignments (return timestamp
\* included) and the asset quantities as they were.
C11_ReturnThenReplay ==
    ( /\ ReturnAnswered
      /\ last.id \in 1 .. Len(SnapAssigned)
      /\ SnapAssigned[last.id].employeeEmail = last.caller
      /\ SnapAssigned[last.id].assetType = "Returnable" )
    => LET was == SnapAssigned[last.id] IN
       /\ ( was.status = "assigned" /\ SnapAssetExists(was.assetId) ) =>
             /\ last.result = 200
             /\ assignedAssets[last.id].status = "returned"
             /\ assets = [SnapAssets EXCEPT ![was.assetId].availableQuantity = @ + 1]
       /\ ( was.status = "returned" /\ was.via = "return" /\ was.by = last.caller ) =>
             /\ last.result = 404
             /\ assignedAssets = SnapAssigned
             /\ assets = SnapAssets

\* the number of increments return calls made on asset a, and the number of
\* a's assignments that a return call moved to returned
RECURSIVE SumIncs(_, _)
SumIncs(a, from) ==
    IF from > Len(assignedAssets) THEN 0
    ELSE (IF assignedAssets[from].assetId = a THEN assignedAssets[from].incs ELSE 0)
         + SumIncs(a, from + 1)
ReturnedByReturn(a) ==
    {i \in 1 .. Len(assignedAssets) :
        assignedAssets[i].assetId = a /\ assignedAssets[i].via = "return"}
ReturnInFlight == \E c \in Slots : InFlight(c) /\ calls[c].op = "return"

\* C12: whenever no return call is in flight, every asset has been incremented
\* by return calls exactly as many times as it has assignments that a return
\* call moved to returned.
C12_ReturnBothOrNeither ==
    ~ReturnInFlight =>
        \A a \in 1 .. Len(assets) :
            SumIncs(a, 1) = Cardinality(ReturnedByReturn(a))

\* the latest step answered a remove call, run alone, with this status code
RemoveAnswered(code) == AllIdle /\ last.op = "remove" /\ last.result = code

\* the assignments of the removed pair that had status assigned when the call started
SnapCascaded ==
    {i \in 1 .. Len(SnapAssigned) :
        /\ SnapAssigned[i].employeeEmail = last.target
        /\ SnapAssigned[i].hrEmail = last.caller
        /\ SnapAssigned[i].status = "assigned"}

SnapHadActiveAffiliation(employeeEmail, hrEmail) ==
    \E i \in 1 .. Len(SnapAffiliations) :
        /\ SnapAffiliations[i].employeeEmail = employeeEmail
        /\ SnapAffiliations[i].hrEmail = hrEmail
        /\ SnapAffiliations[i].status = "active"

\* C13: a remove call that runs alone and answers 200 leaves every assignment of
\* the pair that was assigned returned, and every asset's available higher by
\* exactly the number of its assignments cascaded in this call.
C13_CascadeExact ==
    RemoveAnswered(200) =>
        /\ \A i \in SnapCascaded : assignedAssets[i].status = "returned"
        /\ \A a \in 1 .. Len(SnapAssets) :
              SnapAssetExists(a) =>
                 assets[a].availableQuantity =
                    SnapAssets[a].availableQuantity
                    + Cardinality({i \in SnapCascaded : SnapAssigned[i].assetId = a})

\* C14: a remove call run alone by an HR for a pair that had no active
\* affiliation when it started answers 404 and leaves every collection as it was.
C14_RemoveWithoutAffiliation ==
    ( /\ AllIdle /\ last.op = "remove"
      /\ verifyHR(last.caller)
      /\ ~SnapHadActiveAffiliation(last.target, last.caller) )
    => /\ last.result = 404
       /\ DB = snap

\* C15: a remove call that runs alone on a pair with an active affiliation and
\* answers 200 leaves that affiliation inactive, every other affiliation as it
\* was, and the HR's employee counter lower by exactly 1, whatever the number
\* of assignments it cascaded.
C15_RemoveCounterOnce ==
    ( RemoveAnswered(200) /\ SnapHadActiveAffiliation(last.target, last.caller) )
    => /\ employeeAffiliations =
             [i \in 1 .. Len(SnapAffiliations) |->
                 IF /\ SnapAffiliations[i].employeeEmail = last.target
                    /\ SnapAffiliations[i].hrEmail = last.caller
                 THEN [SnapAffiliations[i] EXCEPT !.status = "inactive"]
                 ELSE SnapAffiliations[i]]
       /\ users = [SnapUsers EXCEPT ![last.caller].currentEmployees = @ - 1]

\* a removal that cascaded two assignments
C15_Witness ==
    /\ RemoveAnswered(200)
    /\ SnapHadActiveAffiliation(last.target, last.caller)
    /\ Cardinality(SnapCascaded) = 2

ActiveAffiliations(employeeEmail, hrEmail) ==
    {i \in 1 .. Len(employeeAffiliations) :
        /\ employeeAffiliations[i].employeeEmail = employeeEmail
        /\ employeeAffiliations[i].hrEmail = hrEmail
        /\ employeeAffiliations[i].status = "active"}

\* C16: in every reachable state each (employee, company) pair has at most one
\* active affiliation.
C16_OneActiveAffiliation ==
    \A e \in Employees, h \in HRs : Cardinality(ActiveAffiliations(e, h)) <= 1

\* C17: after every approve call that runs alone and answers 200 there is an
\* active affiliation for (requester, company).
C17_ActiveAfterApprove ==
    ApproveAnswered(200) =>
        ActiveAffiliations(requests[last.id].requesterEmail, last.caller) # {}

\* C18: an approve call that runs alone and answers 200 for a requester who had
\* an active affiliation with the company adds one assignment and leaves the
\* number of affiliations and the company's employee counter as they were.
C18_AffiliatedApproveFrame ==
    ( /\ ApproveAnswered(200)
      /\ SnapHadActiveAffiliation(SnapRequests[last.id].requesterEmail, last.caller) )
    => /\ Len(assignedAssets) = Len(SnapAssigned) + 1
       /\ Len(employeeAffiliations) = Len(SnapAffiliations)
       /\ users[last.caller].currentEmployees = SnapUsers[last.caller].currentEmployees

\* the second approval for an employee affiliated by the first
C18_Witness ==
    /\ ApproveAnswered(200)
    /\ SnapHadActiveAffiliation(SnapRequests[last.id].requesterEmail, last.caller)
    /\ \E i \in 1 .. Len(SnapAssigned) :
          SnapAssigned[i].employeeEmail = SnapRequests[last.id].requesterEmail

\* the step leaves every document owned by a company other than h as it is
OtherTenantsUnchanged(h) ==
    /\ \A a \in 1 .. Len(assets) : assets[a].hrEmail # h => assets'[a] = assets[a]
    /\ \A r \in 1 .. Len(requests) :
          requests[r].hrEmail # h => requests'[r] = requests[r]
    /\ \A i \in 1 .. Len(assignedAssets) :
          assignedAssets[i].hrEmail # h => assignedAssets'[i] = assignedAssets[i]
    /\ \A i \in 1 .. Len(employeeAffiliations) :
          employeeAffiliations[i].hrEmail # h =>
              employeeAffiliations'[i] = employeeAffiliations[i]

\* C19: no step of approve or removeEmployee called by HR h, and no editAsset,
\* deleteAsset or reject called by h, changes an asset, request, assignment or
\* affiliation owned by another company.
C19_TenantIsolation ==
    [][/\ \A c \in Slots :
             (Steps(c) /\ calls[c].op \in {"approve", "remove"})
                => OtherTenantsUnchanged(calls[c].caller)
       /\ last'.op \in {"editAsset", "deleteAsset", "reject"}
             => OtherTenantsUnchanged(last'.caller)]_vars

\* C20: a reject call by an HR on a pending request of the HR's company answers
\* 200, sets that request's status to rejected and changes nothing else; on a
\* request that is missing, not pending or of another company it answers 404
\* and changes no collection.
C20_RejectEffect ==
    [][(last'.op = "reject" /\ verifyHR(last'.caller)) =>
          LET id == last'.id IN
          IF /\ id \in 1 .. Len(requests)
             /\ requests[id].hrEmail = last'.caller
             /\ requests[id].requestStatus = "pending"
          THEN /\ last'.result = 200
               /\ requests' = [requests EXCEPT ![id].requestStatus = "rejected"]
               /\ UNCHANGED <<users, assets, assignedAssets, employeeAffiliations>>
          ELSE /\ last'.result = 404
               /\ DB' = DB]_vars

\* a reject, by the owning HR, of a request that was approved before
C20_Witness ==
    /\ last.op = "reject" /\ last.result = 404
    /\ RequestExists(last.id)
    /\ requests[last.id].hrEmail = last.caller
    /\ requests[last.id].requestStatus = "approved"

\* C21: a createRequest call answers 201 and appends one pending request,
\* whether or not the asset it names exists; and an approve call, run alone by
\* the owning HR on a pending request whose asset is not in the collection
\* (deleted since), fails (500) and leaves every collection as it was.
C21_RequestForMissingAsset ==
    /\ last.op = "createRequest" =>
          /\ last.result = 201
          /\ Len(requests) = Len(SnapRequests) + 1
          /\ SubSeq(requests, 1, Len(SnapRequests)) = SnapRequests
          /\ requests[Len(requests)].requestStatus = "pending"
    /\ ( /\ AllIdle /\ last.op = "approve"
         /\ verifyHR(last.caller)
         /\ last.id \in 1 .. Len(SnapRequests)
         /\ SnapRequests[last.id].requestStatus = "pending"
         /\ SnapRequests[last.id].hrEmail = last.caller
         /\ ~SnapAssetExists(SnapRequests[last.id].assetId) )
       => /\ last.result = 500
          /\ DB = snap

\* an approval refused because the asset was deleted after the request was made
C21_Witness ==
    /\ AllIdle /\ last.op = "approve" /\ last.result = 500
    /\ SnapRequests[last.id].requestStatus = "pending"
    /\ SnapRequests[last.id].assetId \in 1 .. Len(SnapAssets)
    /\ SnapAssets[SnapRequests[last.id].assetId].deleted

\* C22: every createAsset call by an HR either answers 200 and appends one asset
\* whose available equals its total, the total not negative, or answers 400
\* and creates no asset; no asset with a negative total is ever created.
C22_CreateAssetValidated ==
    [][(last'.op = "createAsset" /\ verifyHR(last'.caller)) =>
          \/ /\ last'.result = 200
             /\ Len(assets') = Len(assets) + 1
             /\ SubSeq(assets', 1, Len(assets)) = assets
             /\ assets'[Len(assets')].availableQuantity =
                   assets'[Len(assets')].productQuantity
             /\ assets'[Len(assets')].productQuantity >= 0
          \/ /\ last'.result = 400
             /\ assets' = assets]_vars

HROnly == {"approve", "reject", "createAsset", "editAsset", "deleteAsset", "remove"}

\* C26: every answer to an HR-only operation called by an identity whose stored
\* role is not "hr" is 403, the step changes no collection, and no approve or
\* remove handler ever runs for such a caller.
C26_ForbiddenForNonHR ==
    [][/\ (last'.op \in HROnly /\ Role(last'.caller) # "hr") =>
             /\ last'.result = 403
             /\ DB' = DB
       /\ \A c \in Slots :
             calls'[c].op \in HROnly => Role(calls'[c].caller) = "hr"]_vars

\* an approve refused to a non-HR caller although the request could be approved
C26_Witness ==
    /\ last.op = "approve" /\ last.result = 403
    /\ Role(last.caller) # "hr"
    /\ RequestExists(last.id)
    /\ requests[last.id].requestStatus = "pending"
    /\ AssetExists(requests[last.id].assetId)
    /\ assets[requests[last.id].assetId].availableQuantity > 0

AssignedNow(a) ==
    {i \in 1 .. Len(assignedAssets) :
        assignedAssets[i].assetId = a /\ assignedAssets[i].status = "assigned"}

\* C27: whenever no call is in flight, every asset (never edited) has
\* available + the number of its assignments with status assigned = total.
C27_InventoryConserved ==
    AllIdle =>
        \A a \in 1 .. Len(assets) :
            assets[a].availableQuantity + Cardinality(AssignedNow(a))
                = assets[a].productQuantity

\* C28: whenever no call is in flight, every company's employee counter equals
\* the number of its active affiliations and is not negative.
C28_CounterMatchesAffiliations ==
    AllIdle =>
        \A h \in HRs :
            /\ users[h].currentEmployees >= 0
            /\ users[h].currentEmployees =
                  Cardinality({i \in 1 .. Len(employeeAffiliations) :
                      /\ employeeAffiliations[i].hrEmail = h
                      /\ employeeAffiliations[i].status = "active"})

SnapPayments == snap[6]
PaymentsOf(transactionId) ==
    {i \in 1 .. Len(payments) : payments[i].transactionId = transactionId}

\* C24: in every reachable state the payments collection holds at most one
\* record for the transactionId of each checkout session.
C24_OnePaymentPerTransaction ==
    \A n \in 1 .. Len(sessions) : Cardinality(PaymentsOf(IntentOf(n))) <= 1

\* C29: a confirm-payment call, run alone by an HR for a session whose
\* transactionId had a payment record when the call started, leaves the
\* payments collection and every users document (subscription and package limit
\* included) as they were.
C29_ReconfirmChangesNothing ==
    ( /\ AllIdle /\ last.op = "confirm"
      /\ verifyHR(last.caller)
      /\ last.id \in 1 .. Len(sessions)
      /\ \E i \in 1 .. Len(SnapPayments) :
            SnapPayments[i].transactionId = IntentOf(last.id) )
    => /\ payments = SnapPayments
       /\ users = SnapUsers

\* C25: no step that raises a company's employee counter takes it above the
\* company's package limit.
C25_LimitEnforced ==
    [][\A h \in HRs :
          users'[h].currentEmployees > users[h].currentEmployees =>
              users'[h].currentEmployees <= users'[h].packageLimit]_vars

=============================================================================
